---- MODULE Spec2Model ----
(***************************************************************************)
(* Model of src/settings/settings_manager.py: the two settings stores      *)
(* (SettingsManagerAsDict, built on SettingsManagerBase, and the older     *)
(* SettingsManager), their constructor, load, save, sanitize_settings,     *)
(* load_from_default and the mapping interface, over a small file system.  *)
(* Python binds names to objects: the model records which dicts and lists  *)
(* of the store are the very objects of default_settings, so that a change *)
(* made through one name shows through the other.                          *)
(***************************************************************************)
EXTENDS Integers, FiniteSets, Sequences, TLC

(***************************************************************************)
(* Bounds of the model.                                                    *)
(***************************************************************************)
\* Number of calls made on a store after its construction.
MaxCalls == 3

(***************************************************************************)
(* Trees.  A tree is a dict: a function from the keys it has to values.    *)
(* A value is a scalar (v is its str() text), or a dict or a list of       *)
(* scalars (sub, a list's entries keyed by position).  Two levels are the  *)
(* most the ini format can hold.                                           *)
(***************************************************************************)
TopKeys == {"theme", "level", "obsolete", "section1"}
SubKeys == {"key", "extra", "Extra"}
KeyOrder == <<"theme", "level", "obsolete", "section1", "key", "extra", "0">>
KeyIdx(k) == CHOOSE i \in 1..Len(KeyOrder) : KeyOrder[i] = k

ObjKinds == {"dict", "list"}

Empty == [k \in {} |-> 0]
Put(f, k, x) == [y \in DOMAIN f \cup {k} |-> IF y = k THEN x ELSE f[y]]
Drop(f, k) == [y \in DOMAIN f \ {k} |-> f[y]]
MapOf(pairs) == [k \in {p[1] : p \in pairs} |-> (CHOOSE p \in pairs : p[1] = k)[2]]

Leaf(kind, v) == [kind |-> kind, v |-> v]
PScalar(kind, v) == [kind |-> kind, v |-> v, sub |-> Empty]
PDict(pairs) == [kind |-> "dict", v |-> "", sub |-> MapOf(pairs)]
PList(pairs) == [kind |-> "list", v |-> "", sub |-> MapOf(pairs)]
DocOf(pairs) == MapOf(pairs)
Keys(doc) == DOMAIN doc

(***************************************************************************)
(* Files.  The disk is a function from the files that exist to their       *)
(* texts; a text is modelled by the tree it denotes, so each writer below  *)
(* yields the tree that the text it writes denotes and each reader the     *)
(* tree it parses out of it.                                               *)
(***************************************************************************)
Unset == "<unset>"
None == ""
Files == {"a.json", "b.json", "a.yaml", "a.yml", "a.toml", "a.ini", "a.txt"}

\* pathlib.Path(p).suffix
Suffix(p) ==
    CASE p \in {"a.json", "b.json"} -> ".json"
      [] p = "a.yaml" -> ".yaml"
      [] p = "a.yml" -> ".yml"
      [] p = "a.toml" -> ".toml"
      [] p = "a.ini" -> ".ini"
      [] OTHER -> ".txt"
\* str.endswith
EndsWith(p, ext) == Suffix(p) = ext

\* A path can also name a directory: it exists, and open() on it fails with
\* IsADirectoryError (an OSError) whatever the mode.
Directory == [kind |-> "directory"]
\* A json or yaml text whose top level is a list, not a mapping.
ListText == [kind |-> "list"]
Exists(d, p) == p \in DOMAIN d
\* Whether open(p, "r") and open(p, "w") succeed.
CanRead(d, p) == p \in DOMAIN d /\ d[p] # Directory
CanWrite(d, p) == p \notin DOMAIN d \/ d[p] # Directory
\* The OSError open() raises when it fails.
OpenError(d, p) == IF p \in DOMAIN d THEN "IsADirectoryError" ELSE "FileNotFoundError"
\* open(p, "w") and the write: the file is created or replaced.
Written(d, p, doc) == Put(d, p, doc)

SUPPORTED_FORMATS == {"json", "yaml", "toml", "ini"}

\* json.dump / json.load: string keys, scalars, lists and dicts are kept as they are.
_write_as_json(doc) == doc
_read_as_json(doc) == doc

\* yaml.safe_dump / yaml.safe_load: likewise.
_write_as_yaml(doc) == doc
_read_as_yaml(doc) == doc

\* toml.dump writes no line for a key whose value is None.
TomlKept(m) == [j \in {i \in DOMAIN m : m[i].kind # "none"} |-> m[j]]
_write_as_toml(doc) ==
    [k \in DOMAIN TomlKept(doc) |->
        IF doc[k].kind = "dict" THEN [doc[k] EXCEPT !.sub = TomlKept(@)] ELSE doc[k]]
_read_as_toml(doc) == doc

\* ConfigParser.optionxform: option names are lower-cased.
optionxform(k) == IF k = "Extra" THEN "extra" ELSE k
\* ConfigParser (strict): two options of a section with one lower-cased name
\* make config[section] = settings raise DuplicateOptionError.
IniDuplicate(doc) ==
    \E k \in DOMAIN doc :
        /\ doc[k].kind = "dict"
        /\ \E i, j \in DOMAIN doc[k].sub : i # j /\ optionxform(i) = optionxform(j)
\* ConfigParser: config[section] = settings stores str(value) for every value
\* but None (allow_no_value) under the lower-cased option name, and the text
\* has no types.
IniLeaves(sub) ==
    [j \in {optionxform(i) : i \in DOMAIN sub} |->
        LET i == CHOOSE i \in DOMAIN sub : optionxform(i) = j
        IN IF sub[i].kind = "none" THEN sub[i] ELSE Leaf("str", sub[i].v)]
_write_as_ini(doc) ==
    [k \in DOMAIN doc |->
        IF doc[k].kind = "dict" THEN [doc[k] EXCEPT !.sub = IniLeaves(@)] ELSE doc[k]]
_read_as_ini(doc) == doc

\* Whether configparser accepts each value as a section (it calls value.items()).
IniSections(doc) == \A k \in DOMAIN doc : doc[k].kind = "dict"

\* Dispatcher that writes every format with the toml writer.
_write_all_as_toml(format, doc) == _write_as_toml(doc)

_write(format, doc) ==
    CASE format = "json" -> _write_as_json(doc)
      [] format = "yaml" -> _write_as_yaml(doc)
      [] format = "toml" -> _write_as_toml(doc)
      [] format = "ini" -> _write_as_ini(doc)

_read(format, doc) ==
    CASE format = "json" -> _read_as_json(doc)
      [] format = "yaml" -> _read_as_yaml(doc)
      [] format = "toml" -> _read_as_toml(doc)
      [] format = "ini" -> _read_as_ini(doc)

(***************************************************************************)
(* Format inference.  The result is the format, or the exception raised.   *)
(***************************************************************************)
Raised(e) == [err |-> e, format |-> ""]
Inferred(f) == [err |-> "none", format |-> f]

extension_to_format(ext) ==
    CASE ext = ".json" -> "json"
      [] ext = ".yaml" -> "yaml"
      [] ext = ".yml" -> "yaml"
      [] ext = ".toml" -> "toml"
      [] ext = ".ini" -> "ini"
      [] OTHER -> ""

\* SettingsManagerBase._get_format
Base_get_format(rp, wp) ==
    IF rp = Unset \/ wp = Unset THEN Raised("AttributeError")
    ELSE IF Suffix(rp) # Suffix(wp) THEN Raised("UnsupportedFormatError")
    ELSE IF extension_to_format(Suffix(rp)) # "" THEN Inferred(extension_to_format(Suffix(rp)))
    ELSE Raised("UnsupportedFormatError")

\* SettingsManager._get_format
Legacy_get_format(rp) ==
    IF rp = Unset THEN Raised("AttributeError")
    ELSE IF EndsWith(rp, ".json") THEN Inferred("json")
    ELSE IF EndsWith(rp, ".yaml") \/ EndsWith(rp, ".yml") THEN Inferred("yaml")
    ELSE IF EndsWith(rp, ".toml") THEN Inferred("toml")
    ELSE IF EndsWith(rp, ".ini") THEN Inferred("ini")
    ELSE Raised("ValueError")

(***************************************************************************)
(* The store's methods, as functions of the object `self` together with    *)
(* the caller's default_settings dict and the disk it works on:            *)
(*   self = [format, read_path, write_path, save_on_change, auto_sanitize, *)
(*           default, data, disk, err]                                     *)
(* default is the tree held by the dict the caller passed.  data says      *)
(* which object self.__data / self._data names:                            *)
(*   obj = "None"     no object yet,                                       *)
(*   obj = "default"  the default_settings dict itself,                    *)
(*   obj = "own"      another dict, with entries m; shared is the set of   *)
(*                    keys whose value is the very dict or list that       *)
(*                    default_settings holds under the same key.           *)
(* err is the exception that left the method, "none" when it returned.     *)
(***************************************************************************)
NoData == [obj |-> "None", m |-> Empty, shared |-> {}]
TheDefault == [obj |-> "default", m |-> Empty, shared |-> {}]
Own(m, shared) == [obj |-> "own", m |-> m, shared |-> shared]
\* obj = "list": a list, what a text whose top level is a list decodes to.
AList == [obj |-> "list", m |-> Empty, shared |-> {}]
\* The object a decoded text is.
Loaded(doc) == IF doc = ListText THEN AList ELSE Own(doc, {})

Raise(self, e) == [self EXCEPT !.err = e]
IsDict(self) == self.data.obj \in {"own", "default"}
\* The tree read through self.__data.
Tree(self) == IF self.data.obj = "default" THEN self.default ELSE self.data.m
\* What a dump of self.__data denotes.
Content(self) == IF self.data.obj = "list" THEN ListText ELSE Tree(self)

\* Sanitizer that drops only the first stale key it meets.
_sanitize_settings_first_only(default, data) ==
    LET stale == DOMAIN data \ DOMAIN default
        first == IF stale = {} THEN {}
                 ELSE {CHOOSE k \in stale : \A j \in stale : KeyIdx(k) <= KeyIdx(j)}
        removed == [k \in DOMAIN data \ first |-> data[k]]
    IN [k \in DOMAIN removed \cup DOMAIN default |->
          IF k \in DOMAIN removed THEN removed[k] ELSE default[k]]

\* Sanitizer that takes the default's value where the two values differ in type.
_sanitize_settings_typed(default, data) ==
    [k \in DOMAIN default |->
        IF k \in DOMAIN data /\ data[k].kind = default[k].kind THEN data[k] ELSE default[k]]

\* Sanitizer that overwrites the keys both sides have with the default's value.
_sanitize_settings_overwrite(default, data) == default

\* SettingsManagerBase._sanitize_settings on the entries of the two dicts:
\* delete the keys default lacks, then add the keys data lacks with the value
\* default holds; the entries of nested dicts are not looked at.
_sanitize_settings(default, data) ==
    LET keys_to_remove == {key \in DOMAIN data : key \notin DOMAIN default}
        removed == [k \in DOMAIN data \ keys_to_remove |-> data[k]]
    IN [k \in DOMAIN removed \cup DOMAIN default |->
          IF k \in DOMAIN removed THEN removed[k] ELSE default[k]]

\* data[key] = value (lines 447 and 842) binds the key to the object default
\* holds, not to a copy: the keys added with a dict or a list become shared,
\* the keys already shared stay so.
SharedAfter(data, m2) ==
    {k \in DOMAIN m2 : \/ k \in data.shared /\ k \in DOMAIN data.m
                       \/ k \notin DOMAIN data.m /\ m2[k].kind \in ObjKinds}

\* The sanitized entries, put into the dict self.__data names.
Sanitized(self, m2) ==
    IF self.data.obj = "default" THEN [self EXCEPT !.default = m2]
    ELSE [self EXCEPT !.data = Own(m2, SharedAfter(self.data, m2))]

\* SettingsManagerBase.sanitize_settings
Base_sanitize_settings(self) ==
    IF ~IsDict(self) THEN Raise(self, "NotImplementedError")
    ELSE Sanitized(self, _sanitize_settings(self.default, Tree(self)))

\* SettingsManagerBase.valid_ini_format
valid_ini_format(doc) == \A section \in DOMAIN doc : doc[section].kind = "dict"

\* save that serializes the tree as it is, without the sanitize step.
Base_save_unsanitized(self) ==
    IF ~IsDict(self) THEN Raise(self, "NotImplementedError")
    ELSE IF ~valid_ini_format(Tree(self)) THEN Raise(self, "IniFormatError")
    ELSE IF ~CanWrite(self.disk, self.write_path) THEN Raise(self, "SaveError")
    ELSE IF self.format = "ini" /\ IniDuplicate(Tree(self))
    THEN [self EXCEPT !.disk = Written(@, self.write_path, Empty), !.err = "DuplicateOptionError"]
    ELSE [self EXCEPT !.disk = Written(@, self.write_path, _write(self.format, Tree(self)))]

\* SettingsManagerBase.save
Base_save(self) ==
    LET s1 == IF self.auto_sanitize THEN Base_sanitize_settings(self) ELSE self IN
    IF s1.err # "none" THEN s1
    ELSE IF ~IsDict(s1) THEN Raise(s1, "NotImplementedError")
    ELSE IF ~valid_ini_format(Tree(s1)) THEN Raise(s1, "IniFormatError")
    ELSE IF ~CanWrite(s1.disk, s1.write_path) THEN Raise(s1, "SaveError")
    ELSE IF s1.format = "ini" /\ IniDuplicate(Tree(s1))
    THEN [s1 EXCEPT !.disk = Written(@, s1.write_path, Empty), !.err = "DuplicateOptionError"]
    ELSE [s1 EXCEPT !.disk = Written(@, s1.write_path, _write(s1.format, Tree(s1)))]

\* SettingsManagerBase.load
Base_load(self) ==
    IF ~CanRead(self.disk, self.read_path) THEN Raise(self, "LoadError")
    ELSE LET s1 == [self EXCEPT
                      !.data = Loaded(_read(self.format, self.disk[self.read_path]))]
         IN IF self.auto_sanitize THEN Base_sanitize_settings(s1) ELSE s1

\* SettingsManagerBase.load_from_default (default_settings a dict): no copy is made.
Base_load_from_default(self) == [self EXCEPT !.data = TheDefault]

(***************************************************************************)
(* SettingsManager, the older class.                                       *)
(***************************************************************************)
\* SettingsManager.sanitize_settings (default_settings a dict)
Legacy_sanitize_settings(self) ==
    IF ~IsDict(self) THEN Raise(self, "TypeError")
    ELSE LET _default_settings == self.default
             t == Tree(self)
             keys_to_remove == {key \in DOMAIN t : key \notin DOMAIN _default_settings}
             removed == [k \in DOMAIN t \ keys_to_remove |-> t[k]]
         IN Sanitized(self, [k \in DOMAIN removed \cup DOMAIN _default_settings |->
                               IF k \in DOMAIN removed THEN removed[k]
                               ELSE _default_settings[k]])

(***************************************************************************)
(* State.                                                                  *)
(***************************************************************************)
VARIABLES
    cls,              \* "SettingsManagerAsDict" or "SettingsManager"
    args,             \* the constructor's arguments
    yaml_available,   \* module flags set by the optional imports
    toml_available,
    default_settings, \* the tree held by the dict the caller passed as default_settings
    pc,               \* "new" before the constructor ran, then "ready" or "failed"
    format,           \* self._format
    read_path,        \* self._read_path
    write_path,       \* self._write_path
    data,             \* self.__data / self._data
    disk,             \* the files
    err,              \* exception raised by the last call, "none" if it returned
    lastOp,           \* the last call made
    before,           \* the tree the store held when that call began
    calls             \* number of calls made since the construction

vars == <<cls, args, yaml_available, toml_available, default_settings, pc, format,
          read_path, write_path, data, disk, err, lastOp, before, calls>>

Self ==
    [format |-> format, read_path |-> read_path, write_path |-> write_path,
     save_on_change |-> args.save_on_change, auto_sanitize |-> args.auto_sanitize,
     default |-> default_settings, data |-> data, disk |-> disk, err |-> "none"]

\* SettingsManager.save
Legacy_save(self) ==
    LET s1 == IF self.auto_sanitize THEN Legacy_sanitize_settings(self) ELSE self IN
    IF s1.err # "none" THEN s1
    ELSE IF s1.format = "ini" /\ (~IsDict(s1) \/ ~IniSections(Tree(s1)))
    THEN Raise(s1, "AttributeError")
    ELSE IF s1.format = "ini" /\ IniDuplicate(Tree(s1)) THEN Raise(s1, "DuplicateOptionError")
    ELSE IF ~(s1.format = "yaml" /\ ~yaml_available) /\ ~(s1.format = "toml" /\ ~toml_available)
            /\ ~CanWrite(s1.disk, s1.write_path)
    THEN Raise(s1, OpenError(s1.disk, s1.write_path))
    ELSE IF s1.format = "json"
    THEN [s1 EXCEPT !.disk = Written(@, s1.write_path, _write_as_json(Content(s1)))]
    ELSE IF s1.format = "yaml" /\ yaml_available
    THEN [s1 EXCEPT !.disk = Written(@, s1.write_path, _write_as_yaml(Content(s1)))]
    ELSE IF s1.format = "toml" /\ toml_available
    THEN [s1 EXCEPT !.disk = Written(@, s1.write_path, _write_as_toml(Tree(s1)))]
    ELSE IF s1.format = "ini"
    THEN [s1 EXCEPT !.disk = Written(@, s1.write_path, _write_as_ini(Tree(s1)))]
    ELSE s1

\* SettingsManager.data (setter)
Legacy_set_data(self, value) ==
    LET s1 == [self EXCEPT !.data = value] IN
    IF self.save_on_change THEN Legacy_save(s1) ELSE s1

\* SettingsManager.load; ConfigParser.read passes over a file it cannot open.
Legacy_load(self) ==
    LET s1 == IF self.format = "ini"
              THEN Legacy_set_data(self,
                       Own(IF CanRead(self.disk, self.read_path)
                           THEN _read_as_ini(self.disk[self.read_path])
                           ELSE Empty, {}))
              ELSE IF ~CanRead(self.disk, self.read_path)
              THEN Raise(self, OpenError(self.disk, self.read_path))
              ELSE Legacy_set_data(self, Loaded(_read(self.format, self.disk[self.read_path])))
    IN IF s1.err = "none" /\ self.auto_sanitize THEN Legacy_sanitize_settings(s1) ELSE s1

\* SettingsManager.load_from_default (default_settings a dict): no copy is made.
Legacy_load_from_default(self) == Legacy_set_data(self, TheDefault)

(***************************************************************************)
(* Constructors.  a is the argument record                                 *)
(*   [path, read_path, write_path, format, save_on_change, auto_sanitize]  *)
(* (None for an argument left out), d the default_settings dict.           *)
(***************************************************************************)
Blank(a, d, dk) ==
    [format |-> "", read_path |-> Unset, write_path |-> Unset,
     save_on_change |-> a.save_on_change, auto_sanitize |-> a.auto_sanitize,
     default |-> d, data |-> NoData, disk |-> dk, err |-> "none"]

\* Path attributes that both name the file given as write_path.
WithWritePathOnly(self, a) ==
    IF a.path # None THEN [self EXCEPT !.read_path = a.path, !.write_path = a.path]
    ELSE IF a.read_path # None /\ a.write_path # None
    THEN [self EXCEPT !.read_path = a.write_path, !.write_path = a.write_path]
    ELSE self

\* Lines 96-101 and 660-665: the two path attributes, set only in these two cases.
WithPaths(self, a) ==
    IF a.path # None THEN [self EXCEPT !.read_path = a.path, !.write_path = a.path]
    ELSE IF a.read_path # None /\ a.write_path # None
    THEN [self EXCEPT !.read_path = a.read_path, !.write_path = a.write_path]
    ELSE self

\* SettingsManagerBase.__init__ (logger None, save_on_exit False)
Base_init(a, d, dk) ==
    LET s0 == Blank(a, d, dk) IN
    IF a.path = None /\ ~(a.read_path # None \/ a.write_path # None)
    THEN Raise(s0, "InvalidPathError")
    ELSE IF a.path # None /\ (a.read_path # None \/ a.write_path # None)
    THEN Raise(s0, "InvalidPathError")
    ELSE
    LET s1 == WithPaths(s0, a)
        f == IF a.format # None THEN Inferred(a.format)
             ELSE Base_get_format(s1.read_path, s1.write_path)
        s2 == [s1 EXCEPT !.format = f.format]
    IN IF f.err # "none" THEN Raise(s1, f.err)
       ELSE IF s2.format \notin SUPPORTED_FORMATS THEN Raise(s2, "UnsupportedFormatError")
       ELSE IF s2.format = "yaml" /\ ~yaml_available THEN Raise(s2, "MissingDependencyError")
       ELSE IF s2.format = "toml" /\ ~toml_available THEN Raise(s2, "MissingDependencyError")
       ELSE IF s2.read_path = Unset THEN Raise(s2, "AttributeError")
       ELSE IF Exists(s2.disk, s2.read_path) THEN Base_load(s2)
       ELSE Base_save(Base_load_from_default(s2))

\* SettingsManager.__init__ (use_logger False, log_file None, save_on_exit False)
Legacy_init(a, d, dk) ==
    LET s0 == Blank(a, d, dk) IN
    IF a.path = None /\ ~(a.read_path # None \/ a.write_path # None)
    THEN Raise(s0, "ValueError")
    ELSE IF a.path # None /\ (a.read_path # None \/ a.write_path # None)
    THEN Raise(s0, "ValueError")
    ELSE IF Keys(d) = {} THEN Raise(s0, "ValueError")
    ELSE
    LET s1 == [WithPaths(s0, a) EXCEPT !.data = Own(Empty, {})]
        f == IF a.format # None THEN Inferred(a.format) ELSE Legacy_get_format(s1.read_path)
        s2 == [s1 EXCEPT !.format = f.format]
    IN IF f.err # "none" THEN Raise(s1, f.err)
       ELSE IF s2.format \notin SUPPORTED_FORMATS THEN Raise(s2, "ValueError")
       ELSE IF s2.format = "yaml" /\ ~yaml_available THEN Raise(s2, "ValueError")
       ELSE IF s2.format = "toml" /\ ~toml_available THEN Raise(s2, "ValueError")
       ELSE IF s2.read_path = Unset THEN Raise(s2, "AttributeError")
       ELSE IF Exists(s2.disk, s2.read_path) THEN Legacy_load(s2)
       ELSE LET s3 == Legacy_load_from_default(s2) IN
            IF s3.err # "none" THEN s3 ELSE Legacy_save(s3)

(***************************************************************************)
(* The mapping interface.  val is a scalar, or a dict or list the caller   *)
(* built for the call.  Both classes write into the dict the getter hands  *)
(* out; neither goes through the setter that saves.                        *)
(***************************************************************************)
\* d[key] = val on the dict self.__data names.
Bind(self, key, val) ==
    IF self.data.obj = "default" THEN [self EXCEPT !.default = Put(@, key, val)]
    ELSE [self EXCEPT !.data.m = Put(@, key, val), !.data.shared = @ \ {key}]

\* del d[key] on the dict self.__data names.
Unbind(self, key) ==
    IF key \notin DOMAIN Tree(self) THEN Raise(self, "KeyError")
    ELSE IF self.data.obj = "default" THEN [self EXCEPT !.default = Drop(@, key)]
    ELSE [self EXCEPT !.data.m = Drop(@, key), !.data.shared = @ \ {key}]

\* SettingsManagerAsDict.__setitem__
Base_setitem(self, key, val) ==
    IF ~IsDict(self) THEN Raise(self, "NotImplementedError") ELSE Bind(self, key, val)

\* SettingsManagerAsDict.__delitem__
Base_delitem(self, key) ==
    IF ~IsDict(self) THEN Raise(self, "NotImplementedError") ELSE Unbind(self, key)

\* SettingsManager.__setitem__
Legacy_setitem(self, key, val) ==
    IF ~IsDict(self) THEN Raise(self, "TypeError") ELSE Bind(self, key, val)

\* SettingsManager.__delitem__
Legacy_delitem(self, key) ==
    IF ~IsDict(self) THEN Raise(self, "TypeError") ELSE Unbind(self, key)

\* manager[k][j] = leaf: __getitem__ hands out the nested object itself, and
\* the change shows under every name of that object.
CanAssign(doc, k, j) ==
    /\ k \in DOMAIN doc
    /\ \/ doc[k].kind = "dict" /\ j \in SubKeys
       \/ doc[k].kind = "list" /\ j \in DOMAIN doc[k].sub
getitem_assign(self, k, j, leaf) ==
    LET nv == [Tree(self)[k] EXCEPT !.sub = Put(@, j, leaf)] IN
    IF self.data.obj = "default" THEN [self EXCEPT !.default[k] = nv]
    ELSE IF k \in self.data.shared THEN [self EXCEPT !.data.m[k] = nv, !.default[k] = nv]
    ELSE [self EXCEPT !.data.m[k] = nv]

\* default_settings[k][j] = leaf, by the caller, on the dict it passed (line 108
\* keeps that dict, not a copy).
default_assign(self, k, j, leaf) ==
    LET nv == [self.default[k] EXCEPT !.sub = Put(@, j, leaf)] IN
    IF self.data.obj = "own" /\ k \in self.data.shared
    THEN [self EXCEPT !.data.m[k] = nv, !.default[k] = nv]
    ELSE [self EXCEPT !.default[k] = nv]

(***************************************************************************)
(* Inputs.                                                                 *)
(***************************************************************************)
Classes == {"SettingsManagerAsDict", "SettingsManager"}

DefaultSchemas ==
    { DocOf({<<"theme", PScalar("str", "light")>>, <<"level", PScalar("int", "1")>>}),
      DocOf({<<"section1", PDict({<<"key", Leaf("str", "value")>>,
                                  <<"extra", Leaf("int", "1")>>})>>}),
      DocOf({<<"section1", PDict({<<"key", Leaf("str", "value")>>})>>,
             <<"level", PList({<<"0", Leaf("str", "a")>>})>>}) }

StoredDocs ==
    { DocOf({<<"theme", PScalar("str", "dark")>>, <<"obsolete", PScalar("bool", "True")>>}),
      DocOf({<<"section1", PDict({<<"key", Leaf("str", "changed")>>,
                                  <<"obsolete", Leaf("str", "1")>>})>>}),
      ListText }

\* A stored tree whose values differ in type from those the default schemas
\* hold under the same keys.
MismatchedDoc ==
    DocOf({<<"section1", PScalar("str", "off")>>,
           <<"level", PDict({<<"key", Leaf("str", "high")>>})>>})

\* What a text of the given syntax can denote.
IniText(doc) ==
    \A k \in DOMAIN doc :
        doc[k].kind = "dict" /\ \A j \in DOMAIN doc[k].sub : doc[k].sub[j].kind \in {"none", "str"}
TomlText(doc) ==
    \A k \in DOMAIN doc :
        doc[k].kind # "none" /\ \A j \in DOMAIN doc[k].sub : doc[k].sub[j].kind # "none"
TextOf(fmt, doc) ==
    CASE doc = ListText -> fmt \in {"json", "yaml"}
      [] fmt = "ini" -> IniText(doc)
      [] fmt = "toml" -> TomlText(doc)
      [] OTHER -> TRUE

SetItemInputs ==
    { <<"theme", PScalar("str", "dark")>>,
      <<"theme", PScalar("none", "None")>>,
      <<"obsolete", PScalar("bool", "True")>>,
      <<"section1", PDict({<<"key", Leaf("str", "v2")>>})>> }

NestedInputs ==
    { <<"extra", Leaf("int", "2")>>, <<"key", Leaf("none", "None")>>,
      <<"0", Leaf("str", "y")>> }

\* A key with an upper-case letter: only the ini codec tells it from any other
\* key, so it is given to stores under ini alone.
CaseInputs(fmt) == IF fmt = "ini" THEN {<<"Extra", Leaf("str", "y")>>} ELSE {}

Arg(p, r, w, f, soc, san) ==
    [path |-> p, read_path |-> r, write_path |-> w, format |-> f,
     save_on_change |-> soc, auto_sanitize |-> san]

\* The file the arguments name for reading.
ReadTarget(a) == IF a.path # None THEN a.path ELSE a.read_path
\* The file the arguments name for writing.
WriteTarget(a) == IF a.path # None THEN a.path ELSE a.write_path
\* The format the arguments lead to, when there is one.
TargetFormat(a) ==
    IF a.format # None THEN a.format
    ELSE IF ReadTarget(a) = None THEN "" ELSE extension_to_format(Suffix(ReadTarget(a)))

\* The disks a store can be constructed on: no file, or a stored file at the
\* read target.
StoredFiles(a) ==
    {Empty} \cup
    (IF ReadTarget(a) = None THEN {}
     ELSE {Put(Empty, ReadTarget(a), d) : d \in {x \in StoredDocs : TextOf(TargetFormat(a), x)}})

\* The same, and those where the read target or a distinct write target is a
\* directory.
Disks(a) ==
    StoredFiles(a) \cup {Put(Empty, ReadTarget(a), Directory)}
    \cup (IF WriteTarget(a) = ReadTarget(a) THEN {}
         ELSE {Put(dk, WriteTarget(a), Directory) : dk \in StoredFiles(a)})

Start(c, a, ya, ta, dflt, dk) ==
    /\ cls = c
    /\ args = a
    /\ yaml_available = ya
    /\ toml_available = ta
    /\ default_settings = dflt
    /\ disk = dk
    /\ pc = "new"
    /\ format = ""
    /\ read_path = Unset
    /\ write_path = Unset
    /\ data = NoData
    /\ err = "none"
    /\ lastOp = "none"
    /\ before = Empty
    /\ calls = 0

\* Stores on well-formed arguments, over every default schema and stored file.
Init ==
    \E c \in Classes, soc \in BOOLEAN, san \in BOOLEAN, dflt \in DefaultSchemas :
    \E a \in {Arg("a.json", None, None, None, soc, san),
              Arg("a.ini", None, None, None, soc, san),
              Arg(None, "a.json", "b.json", None, soc, san)} :
    \E dk \in Disks(a) :
        Start(c, a, TRUE, TRUE, dflt, dk)

(***************************************************************************)
(* Actions.                                                                *)
(***************************************************************************)
\* The state a call leaves behind.
Leaves(r, op) ==
    /\ default_settings' = r.default
    /\ data' = r.data
    /\ disk' = r.disk
    /\ err' = r.err
    /\ lastOp' = op
    /\ before' = Tree(Self)

Construct ==
    /\ pc = "new"
    /\ LET r == IF cls = "SettingsManagerAsDict"
                THEN Base_init(args, default_settings, disk)
                ELSE Legacy_init(args, default_settings, disk)
       IN /\ Leaves(r, "__init__")
          /\ format' = r.format
          /\ read_path' = r.read_path
          /\ write_path' = r.write_path
          /\ pc' = IF r.err = "none" THEN "ready" ELSE "failed"
    /\ UNCHANGED <<cls, args, yaml_available, toml_available, calls>>

\* A call on the constructed store.
Call ==
    /\ pc = "ready"
    /\ calls < MaxCalls
    /\ calls' = calls + 1
    /\ UNCHANGED <<cls, args, yaml_available, toml_available, pc, format, read_path,
                   write_path>>

SetItem ==
    /\ Call
    /\ \E in \in SetItemInputs :
         Leaves(IF cls = "SettingsManagerAsDict"
                THEN Base_setitem(Self, in[1], in[2])
                ELSE Legacy_setitem(Self, in[1], in[2]), "__setitem__")

DelItem ==
    /\ Call
    /\ \E k \in TopKeys :
         Leaves(IF cls = "SettingsManagerAsDict"
                THEN Base_delitem(Self, k) ELSE Legacy_delitem(Self, k), "__delitem__")

Save ==
    /\ Call
    /\ Leaves(IF cls = "SettingsManagerAsDict" THEN Base_save(Self) ELSE Legacy_save(Self),
              "save")

Load ==
    /\ Call
    /\ Leaves(IF cls = "SettingsManagerAsDict" THEN Base_load(Self) ELSE Legacy_load(Self),
              "load")

LoadFromDefault ==
    /\ Call
    /\ Leaves(IF cls = "SettingsManagerAsDict"
              THEN Base_load_from_default(Self) ELSE Legacy_load_from_default(Self),
              "load_from_default")

SanitizeSettings ==
    /\ Call
    /\ Leaves(IF cls = "SettingsManagerAsDict"
              THEN Base_sanitize_settings(Self) ELSE Legacy_sanitize_settings(Self),
              "sanitize_settings")

\* The caller changes an entry of the dict or list it got from manager[k].
MutateStored ==
    /\ Call
    /\ \E k \in TopKeys, in \in NestedInputs \cup CaseInputs(format) :
         /\ IsDict(Self)
         /\ CanAssign(Tree(Self), k, in[1])
         /\ Leaves(getitem_assign(Self, k, in[1], in[2]), "manager[k][j] = v")

\* The caller changes an entry of a dict or list inside the default_settings it passed.
MutateDefault ==
    /\ Call
    /\ \E k \in TopKeys, in \in NestedInputs :
         /\ CanAssign(default_settings, k, in[1])
         /\ Leaves(default_assign(Self, k, in[1], in[2]), "default_settings[k][j] = v")

Next ==
    \/ Construct
    \/ SetItem
    \/ DelItem
    \/ Save
    \/ Load
    \/ LoadFromDefault
    \/ SanitizeSettings
    \/ MutateStored
    \/ MutateDefault

Spec == Init /\ [][Next]_vars

\* Two names of one object show one value.
SharedAgree ==
    data.obj = "own" =>
        \A k \in data.shared :
            k \in DOMAIN data.m /\ k \in DOMAIN default_settings /\ data.m[k] = default_settings[k]

(***************************************************************************)
(* Construction alone, over the arguments a caller can pass.               *)
(***************************************************************************)
PathArgs ==
    {<<p, None, None>> : p \in Files \ {"b.json"}}
    \cup {<<None, "a.json", "b.json">>, <<None, "a.json", "a.yaml">>,
          <<None, "a.yaml", "a.yml">>, <<None, "a.ini", "a.txt">>}
    \cup {<<None, None, None>>, <<"a.json", "a.json", None>>, <<"a.json", None, "b.json">>,
          <<None, "a.json", None>>, <<None, None, "a.json">>}
FormatArgs == {None, "json", "yaml", "toml", "ini", "xml"}

InitNew ==
    \E c \in Classes, pa \in PathArgs, f \in FormatArgs, ya \in BOOLEAN, ta \in BOOLEAN :
    \E dflt \in DefaultSchemas :
    \E dk \in StoredFiles(Arg(pa[1], pa[2], pa[3], f, FALSE, FALSE)) :
        Start(c, Arg(pa[1], pa[2], pa[3], f, FALSE, FALSE), ya, ta, dflt, dk)

SpecNew == InitNew /\ [][Construct]_vars

(***************************************************************************)
(* Stores on one path in each of the four formats, with auto_sanitize and  *)
(* save_on_change off: what is written is what the caller put in.          *)
(***************************************************************************)
InitCodec ==
    \E c \in Classes, dflt \in DefaultSchemas, p \in {"a.json", "a.yaml", "a.toml", "a.ini"} :
    \E dk \in StoredFiles(Arg(p, None, None, None, FALSE, FALSE)) :
        Start(c, Arg(p, None, None, None, FALSE, FALSE), TRUE, TRUE, dflt, dk)

SpecCodec == InitCodec /\ [][Next]_vars

(***************************************************************************)
(* Stores over a json file whose values differ in type from the default's. *)
(***************************************************************************)
InitTypes ==
    \E c \in Classes, soc \in BOOLEAN, san \in BOOLEAN, dflt \in DefaultSchemas :
        Start(c, Arg("a.json", None, None, None, soc, san), TRUE, TRUE, dflt,
              Put(Empty, "a.json", MismatchedDoc))

SpecTypes == InitTypes /\ [][Next]_vars

(***************************************************************************)
(* Properties.                                                             *)
(***************************************************************************)
IsBase == cls = "SettingsManagerAsDict"
\* The tree the store holds now.
TreeNow == IF data.obj = "default" THEN default_settings ELSE data.m
Returned(op) == lastOp = op /\ err = "none"
\* The file at the write path exists and decodes to the tree, as far as the
\* format can hold it (ini keeps no leaf types, toml no None).
FileHolds(doc) ==
    /\ Exists(disk, write_path)
    /\ _read(format, disk[write_path]) = _read(format, _write(format, doc))
Doc1 == DocOf({<<"theme", PScalar("str", "light")>>, <<"level", PScalar("int", "1")>>})
Stored1 == DocOf({<<"theme", PScalar("str", "dark")>>, <<"obsolete", PScalar("bool", "True")>>})
Sanitized1 == DocOf({<<"theme", PScalar("str", "dark")>>, <<"level", PScalar("int", "1")>>})

\* C1: after sanitize_settings the stored mapping has exactly the top-level keys
\* of the default mapping: a key the default lacks is gone, a key only the
\* default has is there with the default's value, and a key both have keeps the
\* stored value.
C1_SanitizeTopLevel ==
    Returned("sanitize_settings") =>
        /\ DOMAIN TreeNow = DOMAIN default_settings
        /\ \A k \in DOMAIN default_settings :
              TreeNow[k] = IF k \in DOMAIN before THEN before[k] ELSE default_settings[k]

\* The scenario of the specification: {theme: dark, obsolete: true} sanitized
\* against {theme: light, level: 1} is {theme: dark, level: 1}.
C1_Witness ==
    /\ Returned("sanitize_settings")
    /\ default_settings = Doc1
    /\ before = Stored1
    /\ TreeNow = Sanitized1

\* C2: after sanitize_settings, a nested mapping that is a mapping in the stored
\* tree and in the default tree has exactly the keys of the nested default
\* mapping.
C2_NestedReconciled ==
    Returned("sanitize_settings") =>
        \A k \in DOMAIN before \cap DOMAIN default_settings :
            (before[k].kind = "dict" /\ default_settings[k].kind = "dict")
                => /\ k \in DOMAIN TreeNow
                   /\ DOMAIN TreeNow[k].sub = DOMAIN default_settings[k].sub

\* C3: a sanitize_settings call that follows a sanitize_settings call changes
\* nothing: not the stored tree, not the default, not a file, and it returns.
C3_SanitizeIdempotent ==
    [][(Returned("sanitize_settings") /\ lastOp' = "sanitize_settings")
          => (data' = data /\ default_settings' = default_settings /\ disk' = disk
              /\ err' = "none")]_vars

\* A second sanitize in a row: with auto_sanitize off and the stored file still
\* as found, only a first sanitize_settings call turns it into this tree.
C3_Witness ==
    /\ Returned("sanitize_settings")
    /\ calls = 2
    /\ ~args.auto_sanitize
    /\ default_settings = Doc1
    /\ Exists(disk, read_path) /\ disk[read_path] = Stored1
    /\ before = Sanitized1
    /\ TreeNow = before

\* C4: with save_on_change, right after manager[k] = v or del manager[k] the
\* file at the write path decodes to the tree the store holds (as far as the
\* format can hold it).
C4_SaveOnChange ==
    (args.save_on_change /\ (Returned("__setitem__") \/ Returned("__delitem__")))
        => FileHolds(TreeNow)

\* C5: first run. When no file exists at the path the constructor is given, it
\* succeeds, the store holds the default schema, and the file now exists and
\* decodes to the default schema (as far as the format can hold it).
C5_FirstRun ==
    [][(pc = "new" /\ ~Exists(disk, ReadTarget(args)))
          => /\ pc' = "ready"
             /\ TreeNow' = default_settings
             /\ FileHolds(default_settings)']_vars

\* C6: a value sanitize_settings added from the default schema is a copy: with
\* the store holding a dict of its own, a change inside a value of the default
\* schema leaves the stored tree as it is, and a change inside a stored value
\* leaves the default schema as it is.
C6_AddedIsCopy ==
    [][data.obj = "own"
          => /\ lastOp' = "default_settings[k][j] = v" => data'.m = data.m
             /\ lastOp' = "manager[k][j] = v" => default_settings' = default_settings]_vars

\* C7: no key assignment, key deletion, sanitize_settings, save, load or
\* load_from_default on the store changes the default schema the caller passed.
C7_DefaultImmutable ==
    [][lastOp' \in {"__init__", "__setitem__", "__delitem__", "sanitize_settings", "save",
                    "load", "load_from_default"}
          => default_settings' = default_settings]_vars

\* C8: under ini, save of a tree with a top-level value that is not a mapping
\* fails with the structural error and leaves every file as it was.
C8_IniShape ==
    [][(lastOp' = "save" /\ format = "ini" /\ data.obj # "None" /\ ~IniSections(TreeNow'))
          => (err' = "IniFormatError" /\ disk' = disk)]_vars

\* C9: under json, yaml and toml, save of a tree with scalars or lists at the
\* top level raises no structural error and writes the tree to the write path.
C9_ShapeIsIniOnly ==
    (lastOp = "save" /\ format \in {"json", "yaml", "toml"} /\ ~IniSections(TreeNow))
        => (err # "IniFormatError" /\ FileHolds(TreeNow))

\* C10: with no format argument, the format follows the extension when the read
\* and the write path have the same one of .json .yaml .yml .toml .ini, and the
\* constructor fails with a configuration error when the two extensions differ
\* or the extension is none of these.
ConfigErrors == {"InvalidPathError", "UnsupportedFormatError", "MissingDependencyError",
                 "ValueError"}
PathsGiven(a) ==
    \/ a.path # None /\ a.read_path = None /\ a.write_path = None
    \/ a.path = None /\ a.read_path # None /\ a.write_path # None
C10_FormatInference ==
    (lastOp = "__init__" /\ args.format = None /\ PathsGiven(args)) =>
        LET r == Suffix(ReadTarget(args))
            w == Suffix(WriteTarget(args))
        IN IF r # w \/ r \notin {".json", ".yaml", ".yml", ".toml", ".ini"}
           THEN pc = "failed" /\ err \in ConfigErrors
           ELSE format = CASE r = ".json" -> "json"
                           [] r \in {".yaml", ".yml"} -> "yaml"
                           [] r = ".toml" -> "toml"
                           [] r = ".ini" -> "ini"

\* C11: when the path arguments are anything but path alone or read_path and
\* write_path together without path, the constructor fails with the invalid-path
\* error (ValueError in SettingsManager) and no file is created or changed.
PathErrors == {"InvalidPathError", "ValueError"}
C11_PathArguments ==
    [][(pc = "new" /\ ~PathsGiven(args))
          => (pc' = "failed" /\ err' \in PathErrors /\ disk' = disk)]_vars

\* C12: with auto_sanitize, a load that returns leaves the decoded tree
\* reconciled with the default schema (its keys are the default's, a key the
\* file had keeps the file's value, the others have the default's), and a save
\* that returns has reconciled the tree first and then written it: the file
\* holds the reconciled tree, with exactly the default's top-level keys when
\* the format can hold every value of the tree.
Reconciled(tree, loaded) ==
    /\ DOMAIN tree = DOMAIN default_settings
    /\ \A k \in DOMAIN tree :
          tree[k] = IF k \in DOMAIN loaded THEN loaded[k] ELSE default_settings[k]
C12_AutoSanitize ==
    [][(args.auto_sanitize /\ err' = "none")
          => /\ (lastOp' = "load" /\ CanRead(disk, read_path))
                   => Reconciled(TreeNow', _read(format, disk[read_path]))
             /\ lastOp' = "save"
                   => /\ Reconciled(TreeNow', TreeNow)
                      /\ Exists(disk', write_path)
                      /\ disk'[write_path] = _write(format, TreeNow')
                      /\ TomlText(TreeNow')
                            => DOMAIN disk'[write_path] = DOMAIN default_settings]_vars

\* A save that found a stale key in the tree and wrote a file without it.
C12_Witness ==
    /\ Returned("save")
    /\ args.auto_sanitize
    /\ "obsolete" \in DOMAIN before
    /\ Exists(disk, write_path)
    /\ DOMAIN disk[write_path] = DOMAIN default_settings
    /\ "obsolete" \notin DOMAIN disk[write_path]

\* C13: a load whose read path cannot be opened raises the load error and
\* leaves the tree as it was; a save that gets to open a write path that
\* cannot be opened raises the save error; neither returns as if nothing had
\* happened, and neither lets the bare OSError through.
OSErrors == {"FileNotFoundError", "IsADirectoryError"}
C13_IOErrorsWrapped ==
    [][/\ (lastOp' = "load" /\ ~CanRead(disk, read_path))
             => (err' = "LoadError" /\ data' = data /\ default_settings' = default_settings)
       /\ (lastOp' = "save" /\ ~CanWrite(disk, write_path))
             => (err' # "none" /\ err' \notin OSErrors)]_vars

\* C14: a sanitize_settings call that fails, the stored data not being a
\* mapping included, fails with the sanitization error and no other.
C14_SanitizationError ==
    [][(lastOp' = "sanitize_settings" /\ err' # "none") => err' = "SanitizationError"]_vars

\* C15: load and load_from_default write no file, save_on_change or not.
C15_LoadWritesNothing ==
    [][lastOp' \in {"load", "load_from_default"} => disk' = disk]_vars

\* C16: under json, yaml and toml, with one path for reading and writing and
\* auto_sanitize off, a load that follows a save that returned leaves the
\* store with the tree it had before the save, for every tree the format can
\* hold (toml: no None value).
RespectsFormat(fmt, tree) == fmt = "toml" => TomlText(tree)
C17_IniRoundTrip ==
    [][(/\ Returned("save") /\ lastOp' = "load"
        /\ ~args.auto_sanitize /\ read_path = write_path /\ format = "ini"
        /\ data.obj \in {"own", "default"} /\ before = TreeNow
        /\ IniSections(before))
          => /\ err' = "none" /\ data'.obj = "own"
             /\ DOMAIN TreeNow' = DOMAIN before
             /\ \A s \in DOMAIN before :
                   /\ TreeNow'[s].kind = "dict"
                   /\ DOMAIN TreeNow'[s].sub = DOMAIN before[s].sub
                   /\ \A j \in DOMAIN before[s].sub :
                         TreeNow'[s].sub[j] = Leaf("str", before[s].sub[j].v)]_vars

\* C18: a call of sanitize_settings on a stored mapping leaves every key that
\* the stored tree and the default both have, and whose two values are not
\* both mappings, with the stored value it had, raises nothing, and leaves the
\* default's value alone.
BothMappings(a, b) == a.kind = "dict" /\ b.kind = "dict"
C18_PresenceOnly ==
    [][(lastOp' = "sanitize_settings" /\ data.obj \in {"own", "default"})
          => \A k \in DOMAIN TreeNow \cap DOMAIN default_settings :
                ~BothMappings(TreeNow[k], default_settings[k])
                   => /\ err' = "none"
                      /\ k \in DOMAIN TreeNow' /\ TreeNow'[k] = TreeNow[k]
                      /\ default_settings'[k] = default_settings[k]]_vars
C18_Witness ==
    /\ Returned("sanitize_settings")
    /\ {"section1", "level"} \subseteq DOMAIN before \cap DOMAIN default_settings
    /\ before["section1"].kind = "str" /\ default_settings["section1"].kind = "dict"
    /\ before["level"].kind = "dict" /\ default_settings["level"].kind = "list"
    /\ TreeNow = before

\* C19: for a store given distinct read_path and write_path, no step creates
\* or changes any file but the one at write_path, so the file at read_path stays
\* as it was; a load of SettingsManagerAsDict that returns holds what the file
\* at read_path holds (reconciled with the default under auto_sanitize), and
\* one that finds no file there raises LoadError and leaves the tree alone; a
\* construction of it that finds no file at read_path and returns has written
\* the defaults to write_path and left read_path missing.
DistinctPaths == args.path = None /\ ReadTarget(args) # WriteTarget(args)
SameFile(p) ==
    /\ Exists(disk', p) <=> Exists(disk, p)
    /\ Exists(disk, p) => disk'[p] = disk[p]
C19_SeparatePaths ==
    [][DistinctPaths
          => /\ \A p \in Files \ {WriteTarget(args)} : SameFile(p)
             /\ (IsBase /\ lastOp' = "load")
                   => IF ~Exists(disk, ReadTarget(args))
                      THEN err' = "LoadError" /\ data' = data
                      ELSE err' = "none"
                             => IF disk[ReadTarget(args)] = ListText THEN data' = AList
                                ELSE IF args.auto_sanitize
                                THEN Reconciled(TreeNow', _read(format, disk[ReadTarget(args)]))
                                ELSE TreeNow' = _read(format, disk[ReadTarget(args)])
             /\ (IsBase /\ pc = "new" /\ pc' = "ready" /\ ~Exists(disk, ReadTarget(args)))
                   => /\ ~Exists(disk', ReadTarget(args))
                      /\ Exists(disk', WriteTarget(args))
                      /\ disk'[WriteTarget(args)] = _write(format', default_settings)
                      /\ TreeNow' = default_settings]_vars
\* After a first run on distinct paths the defaults are at write_path, nothing
\* is at read_path, and the load that followed raised LoadError.
C19_Witness ==
    /\ IsBase /\ DistinctPaths /\ calls = 1
    /\ lastOp = "load" /\ err = "LoadError"
    /\ ~Exists(disk, read_path) /\ Exists(disk, write_path)
    /\ disk[write_path] = default_settings /\ TreeNow = default_settings

====
